---- MODULE Spec2Model ----
(***************************************************************************)
(* canvas_bot.py: a sequential poller that relays Canvas announcements to  *)
(* a Discord webhook and keeps a durable map of the announcements already  *)
(* notified (seen_announcements.json).                                     *)
(*                                                                         *)
(* Python values are represented as follows.                               *)
(*   - a timestamp string is the sequence of its digits, so that "" is     *)
(*     <<>> and Python's string comparison is StrLess;                     *)
(*   - None (a JSON null or a missing key) is the sequence <<-1>>;         *)
(*   - a value whose Python type matters (a course id, a title, a name)    *)
(*     is a pair <<type, n>>;                                              *)
(*   - str(id) is ToString(id), the key of the seen map.                   *)
(***************************************************************************)
EXTENDS Integers, Sequences, FiniteSets, TLC

\* ------------------------------------------------------------- bounds
MaxAnn == 3          \* announcement identifiers that exist upstream
MaxEvents == 1       \* upstream edits and process restarts in one behaviour
MaxBody == 2000      \* characters of the longest plain text of an announcement
MaxLinks == 2        \* named links of one announcement

\* ------------------------------------------------------------- values
None == <<-1>>
EmptyStr == <<>>
PyInt(n) == <<"int", n>>
PyStr(n) == <<"str", n>>

Truthy(x) == x # None /\ x # EmptyStr
PyOr(a, b) == IF Truthy(a) THEN a ELSE b

RECURSIVE StrLessNumeric(_, _)
StrLessNumeric(a, b) ==
    IF Len(a) # Len(b) THEN Len(a) < Len(b)
    ELSE IF a = <<>> THEN FALSE
    ELSE IF Head(a) # Head(b) THEN Head(a) < Head(b)
    ELSE StrLessNumeric(Tail(a), Tail(b))

\* Python's < on str: lexicographic, a proper prefix is smaller.
RECURSIVE StrLess(_, _)
StrLess(a, b) ==
    IF b = <<>> THEN FALSE
    ELSE IF a = <<>> THEN TRUE
    ELSE IF Head(a) # Head(b) THEN Head(a) < Head(b)
    ELSE StrLess(Tail(a), Tail(b))

\* list.sort(key=...): the stable sort of s by the parallel sequence of keys.
\* An element goes behind the elements with a smaller key and behind the
\* earlier elements with an equal key.
SortRank(keys, j) ==
    1 + Cardinality({k \in 1..Len(keys) :
                        \/ StrLess(keys[k], keys[j])
                        \/ (~StrLess(keys[j], keys[k]) /\ k < j)})

list_sort(keys, s) ==
    [r \in 1..Len(s) |-> s[CHOOSE j \in 1..Len(s) : SortRank(keys, j) = r]]

\* ------------------------------------------------------------- upstream
AnnIds == 1..MaxAnn
T10 == <<1, 0>>
T2 == <<2>>

\* The (posted_at, created_at) pairs an announcement may carry.
VersionSeq ==
    << [posted_at |-> None, created_at |-> T2],
       [posted_at |-> T10, created_at |-> T2],
       [posted_at |-> None, created_at |-> None] >>
TopicVersions == {VersionSeq[j] : j \in 1..Len(VersionSeq)}

\* The content announcement a is first published with.
FirstVersion(a) == VersionSeq[((a - 1) % Len(VersionSeq)) + 1]

Absent == [present |-> FALSE, posted_at |-> None, created_at |-> None]
Present(v) == [present |-> TRUE, posted_at |-> v.posted_at, created_at |-> v.created_at]

\* The courses of the Canvas account, and the course each announcement is in
\* (identifiers are unique across the source).
ActiveCourses == <<PyInt(1), PyInt(2)>>
\* The same courses in the order /api/v1/courses lists them.
DiscoveredCourses == <<PyInt(2), PyInt(1)>>
CourseOf(a) == PyInt(((a - 1) % 2) + 1)

VARIABLES
    INITIAL_RUN_SEND, COURSE_IDS, COURSE_ROLES,   \* configuration (l. 8, 12, 13)
    upstream,        \* the announcements the Canvas API currently returns
    disk,            \* seen_announcements.json
    pc,              \* position of main()
    seen,            \* main: seen
    course_ids,      \* main: course_ids
    course_map,      \* main: course_map
    initial_found,   \* main: initial_found
    i,               \* position of the bootstrap loops over initial_found
    ci,              \* position of "for cid in course_ids"
    topics,          \* poll loop: topics of the current course, sorted
    ti,              \* position of "for t in topics"
    sink,            \* per announcement, the payloads the webhook accepted
    attempts,        \* send_to_discord calls of the current pass, in order
    saves,           \* save_seen calls of this process
    loaded,          \* what load_seen returned to this process
    failed,          \* a Canvas request, a webhook post or a file write has failed
    unclean,         \* a termination found keys of seen missing from the file
    changes,         \* upstream edits so far
    restarts,        \* restarts so far
    fpc,             \* position in the formatting of one announcement
    raw_text,        \* strip_html(raw_html)
    named_links,     \* extract_named_links(raw_html)
    body_text,       \* main: body, as passed to send_to_discord
    description      \* embed["description"] of the payload posted

config == <<INITIAL_RUN_SEND, COURSE_IDS, COURSE_ROLES>>
locals == <<seen, course_ids, course_map, initial_found, i, ci, topics, ti>>
history == <<sink, attempts, saves, loaded, failed, unclean, changes, restarts>>
format == <<fpc, raw_text, named_links, body_text, description>>
vars == <<config, upstream, disk, pc, locals, history, format>>

\* ------------------------------------------------------------- files
EmptyMap == [k \in {} |-> EmptyStr]
NoFile == [kind |-> "nofile", data |-> EmptyMap]
Corrupt == [kind |-> "corrupt", data |-> EmptyMap]   \* not a JSON document
File(m) == [kind |-> "json", data |-> m]

\* the file ignored at startup
load_seen_empty(d) == EmptyMap

\* load_seen: {} when the file does not exist, else the parsed document
load_seen(d) == IF d.kind = "nofile" THEN EmptyMap ELSE d.data

\* seen[tid] = posted
SetItem(m, k, v) == [x \in DOMAIN m \cup {k} |-> IF x = k THEN v ELSE m[x]]

\* ------------------------------------------------------------- source client
Topic(a) ==
    [id |-> a, title |-> PyStr(a),
     posted_at |-> upstream[a].posted_at, created_at |-> upstream[a].created_at]

\* fetch_announcements_for_course: the announcements of one course, newest
\* identifier first.
RECURSIVE TopicsUpTo(_, _)
TopicsUpTo(cid, n) ==
    IF n = 0 THEN <<>>
    ELSE IF upstream[n].present /\ CourseOf(n) = cid
         THEN <<Topic(n)>> \o TopicsUpTo(cid, n - 1)
         ELSE TopicsUpTo(cid, n - 1)

fetch_announcements_for_course(cid) == TopicsUpTo(cid, MaxAnn)

\* ------------------------------------------------------------- notifier
IndexOf(list, x) == CHOOSE k \in 1..Len(list) :
                        list[k] = x /\ \A j \in 1..(k - 1) : list[j] # x

\* a role found for every listed course, also past the end of COURSE_ROLES
send_precheck_any_role(cid, body) ==
    IF ~ \E k \in 1..Len(COURSE_IDS) : COURSE_IDS[k] = cid THEN "ValueError"
    ELSE IF body = None THEN "TypeError"
    ELSE "post"

\* the role lookup skipped for a course that is not in COURSE_IDS
send_precheck_unlisted_course(cid, body) ==
    IF (\E k \in 1..Len(COURSE_IDS) : COURSE_IDS[k] = cid)
       /\ (CHOOSE k \in 1..Len(COURSE_IDS) : COURSE_IDS[k] = cid) > Len(COURSE_ROLES)
    THEN "IndexError"
    ELSE IF body = None THEN "TypeError"
    ELSE "post"

\* What send_to_discord does before it posts: the role lookup
\* COURSE_ROLES[COURSE_IDS.index(cid)], then len(body).
send_precheck(cid, body) ==
    IF ~ \E k \in 1..Len(COURSE_IDS) : COURSE_IDS[k] = cid THEN "ValueError"
    ELSE IF IndexOf(COURSE_IDS, cid) > Len(COURSE_ROLES) THEN "IndexError"
    ELSE IF body = None THEN "TypeError"
    ELSE "post"

\* ------------------------------------------------------------- formatter
\* A text is the sequence of its character codes.
PlainText(n) == [j \in 1..n |-> 97 + (j % 7)]

\* l. 70: one extracted link, f"[{text}]({url})"
MarkdownLink(k) == <<91, 64 + k, 93, 40, 104, 41>>
NamedLinks(n) == [k \in 1..n |-> MarkdownLink(k)]

\* "\n".join(named_links)
RECURSIVE join(_, _)
join(sep, strs) ==
    IF strs = <<>> THEN <<>>
    ELSE IF Len(strs) = 1 THEN strs[1]
    ELSE strs[1] \o sep \o join(sep, Tail(strs))

\* l. 172: "\n\n🔗 **Links:**\n" + "\n".join(named_links)
LinksHeader == <<10, 10, 128279, 32, 42, 42, 76, 105, 110, 107, 115, 58, 42, 42, 10>>
link_section(links) == LinksHeader \o join(<<10>>, links)

\* the link section left out of the body
compose_body_text_only(text, links) == text

\* l. 168-172: body = strip_html(raw_html), and the link section appended to
\* it when links were extracted
compose_body(text, links) ==
    IF links # <<>> THEN text \o link_section(links) ELSE text

Ellipsis == <<46, 46, 46>>

\* the cut made at the threshold instead of at 1800
embed_description_cut_at_threshold(b) ==
    IF Len(b) > 1900 THEN SubSeq(b, 1, 1900) \o Ellipsis ELSE b

\* l. 89: (body[:1800] + "...") if len(body) > 1900 else body
embed_description(b) ==
    IF Len(b) > 1900 THEN SubSeq(b, 1, 1800) \o Ellipsis ELSE b

\* The lengths of plain text tried: short ones, the ones around the cut
\* length and the threshold, and the longest.
TextLens ==
    {n \in 0..MaxBody : \/ n <= 1
                        \/ (n >= 1770 /\ n <= 1810)
                        \/ (n >= 1870 /\ n <= 1910)
                        \/ n = 2000 \/ n = MaxBody}

\* ------------------------------------------------------------- main()
Range(s) == {s[j] : j \in 1..Len(s)}

\* the tuple of l. 148 without the created_at fallback of l. 147
FoundPostedOnly(cid, t) ==
    [cid |-> cid, t |-> t, tid |-> ToString(t.id),
     posted |-> PyOr(t.posted_at, EmptyStr)]

\* l. 146-148: the tuple appended to initial_found for topic t of course cid
Found(cid, t) ==
    [cid |-> cid, t |-> t, tid |-> ToString(t.id),
     posted |-> PyOr(PyOr(t.posted_at, t.created_at), EmptyStr)]

FoundOf(cid, ts) == [j \in 1..Len(ts) |-> Found(cid, ts[j])]

\* l. 153: initial_found.sort(key=lambda x: x[3] or "")
sort_initial(found) ==
    list_sort([j \in 1..Len(found) |-> PyOr(found[j].posted, EmptyStr)], found)

\* the topics left in the order the source returned them
sort_topics_unsorted(ts) == ts

\* l. 190: topics.sort(key=lambda t: t.get("posted_at") or "")
sort_topics(ts) ==
    list_sort([j \in 1..Len(ts) |-> PyOr(ts[j].posted_at, EmptyStr)], ts)

\* l. 158 guarded by "if tid not in seen"
RECURSIVE mark_existing_absent_only(_, _)
mark_existing_absent_only(m, found) ==
    IF found = <<>> THEN m
    ELSE mark_existing_absent_only(
             IF Head(found).tid \in DOMAIN m THEN m
             ELSE SetItem(m, Head(found).tid, Head(found).posted),
             Tail(found))

\* l. 158 as seen[tid] = seen.get(tid, "") + posted
RECURSIVE mark_existing_accumulate(_, _)
mark_existing_accumulate(m, found) ==
    IF found = <<>> THEN m
    ELSE mark_existing_accumulate(
             SetItem(m, Head(found).tid,
                     (IF Head(found).tid \in DOMAIN m THEN m[Head(found).tid]
                      ELSE EmptyStr) \o Head(found).posted),
             Tail(found))

\* seen rebuilt from the batch alone
mark_existing_batch_only(m, found) ==
    [k \in {found[j].tid : j \in 1..Len(found)} |->
        found[CHOOSE j \in 1..Len(found) :
                 found[j].tid = k /\ \A h \in (j + 1)..Len(found) : found[h].tid # k].posted]

\* l. 157-158: for cid, t, tid, posted in initial_found: seen[tid] = posted
RECURSIVE mark_existing(_, _)
mark_existing(m, found) ==
    IF found = <<>> THEN m
    ELSE mark_existing(SetItem(m, Head(found).tid, Head(found).posted), Tail(found))

\* the check of l. 164 and l. 193 left out
is_seen_never(m, tid) == FALSE

\* l. 164 and l. 193: if tid in seen: continue
is_seen(m, tid) == tid \in DOMAIN m

\* the body main() hands to the bootstrap send: strip_html returns a str
Body(t) == PyStr(t.id)

Attempt(cid, t) == [cid |-> cid, tid |-> ToString(t.id), t |-> t]

\* The outcomes of a write of the file: save_seen either replaces its content,
\* or fails with the file untouched (open failed) or truncated (dump failed).
FailedWrite(d) == {d, Corrupt}

\* The files the process may find when it is first started.
InitialFiles ==
    { NoFile, File((ToString(1) :> T10) @@ ("9" :> T2)) }

\* course_map: the name Canvas gives, or the placeholder of l. 137
Name(cid) == PyStr(100 + cid[2])
Placeholder(cid) == PyStr(200 + cid[2])

\* The source and the file found at process start.
AnySource ==
    \E pub \in SUBSET AnnIds :
       upstream = [a \in AnnIds |->
                      IF a \in pub THEN Present(FirstVersion(a)) ELSE Absent]

\* main() not yet started
ProcessStart ==
    /\ pc = "load"
    /\ seen = EmptyMap
    /\ course_ids = <<>>
    /\ course_map = EmptyMap
    /\ initial_found = <<>>
    /\ i = 1
    /\ ci = 1
    /\ topics = <<>>
    /\ ti = 1
    /\ sink = [a \in AnnIds |-> 0]
    /\ attempts = <<>>
    /\ saves = 0
    /\ loaded = EmptyMap
    /\ failed = FALSE
    /\ unclean = FALSE
    /\ changes = 0
    /\ restarts = 0

\* no message is being formatted on its own
FormatIdle ==
    /\ fpc = "idle"
    /\ raw_text = <<>>
    /\ named_links = <<>>
    /\ body_text = <<>>
    /\ description = <<>>

Init ==
    /\ INITIAL_RUN_SEND \in BOOLEAN
    /\ COURSE_IDS = ActiveCourses
    /\ COURSE_ROLES = <<"CCS0005", "GED">>
    /\ AnySource
    /\ disk \in InitialFiles
    /\ ProcessStart
    /\ FormatIdle

\* The configurations the role lookup of l. 82 does not fit: no static course
\* list (the courses are discovered), and a role list one short.
ConfigInit ==
    /\ INITIAL_RUN_SEND \in BOOLEAN
    /\ \/ COURSE_IDS = <<>> /\ COURSE_ROLES = <<"CCS0005", "GED">>
       \/ COURSE_IDS = ActiveCourses /\ COURSE_ROLES = <<"CCS0005">>
    /\ AnySource
    /\ disk \in InitialFiles
    /\ ProcessStart
    /\ FormatIdle

\* l. 122: seen = load_seen(); json.load of a truncated file raises, and
\* nothing in main() catches it.
LoadSeen ==
    /\ pc = "load"
    /\ UNCHANGED format
    /\ IF disk.kind = "corrupt"
       THEN pc' = "crashed" /\ UNCHANGED <<seen, loaded>>
       ELSE pc' = "courses" /\ seen' = load_seen(disk) /\ loaded' = load_seen(disk)
    /\ UNCHANGED <<config, upstream, disk, course_ids, course_map, initial_found,
                   i, ci, topics, ti, sink, attempts, saves, failed, unclean,
                   changes, restarts>>

\* l. 124-137: the course list and the course names
ResolveCourses ==
    /\ pc = "courses"
    /\ UNCHANGED format
    /\ IF COURSE_IDS = <<>>
       THEN \/ /\ course_ids' = DiscoveredCourses
               /\ course_map' = [c \in Range(DiscoveredCourses) |-> Name(c)]
               /\ pc' = "init_fetch"
               /\ failed' = failed
            \/ /\ pc' = "crashed"            \* fetch_user_courses raised
               /\ failed' = TRUE
               /\ UNCHANGED <<course_ids, course_map>>
       ELSE /\ course_ids' = COURSE_IDS
            /\ \E bad \in SUBSET Range(COURSE_IDS) :
                  /\ course_map' = [c \in Range(COURSE_IDS) |->
                                       IF c \in bad THEN Placeholder(c) ELSE Name(c)]
                  /\ failed' = (failed \/ bad # {})
            /\ pc' = "init_fetch"
    /\ UNCHANGED <<config, upstream, disk, seen, initial_found, i, ci, topics, ti,
                   sink, attempts, saves, loaded, unclean, changes, restarts>>

\* what was collected before the failure thrown away
init_fetch_except_reset(found) == <<>>

\* l. 149-150: "except Exception" inside the for loop prints; initial_found
\* keeps what the earlier courses gave.
init_fetch_except(found) == found

\* l. 141-153: one turn of "for cid in course_ids", and the sort after the
\* last one.
InitFetch ==
    /\ pc = "init_fetch"
    /\ UNCHANGED format
    /\ ci <= Len(course_ids)
    /\ LET cid == course_ids[ci]
           last == (ci = Len(course_ids))
           Finish(found) ==
               /\ initial_found' = (IF last THEN sort_initial(found) ELSE found)
               /\ ci' = (IF last THEN 1 ELSE ci + 1)
               /\ pc' = (IF ~last THEN "init_fetch"
                         ELSE IF INITIAL_RUN_SEND THEN "init_send" ELSE "mark")
       IN \/ /\ Finish(initial_found \o FoundOf(cid, fetch_announcements_for_course(cid)))
             /\ failed' = failed
          \/ /\ Finish(init_fetch_except(initial_found))    \* the fetch raised
             /\ failed' = TRUE
    /\ UNCHANGED <<config, upstream, disk, seen, course_ids, course_map, i, topics, ti,
                   sink, attempts, saves, loaded, unclean, changes, restarts>>

\* l. 157-158: mark-only bootstrap
MarkExisting ==
    /\ pc = "mark"
    /\ UNCHANGED format
    /\ seen' = mark_existing(seen, initial_found)
    /\ pc' = "mark_save"
    /\ UNCHANGED <<config, upstream, disk, course_ids, course_map, initial_found,
                   i, ci, topics, ti, history>>

\* l. 159: save_seen(seen), outside any try
MarkSave ==
    /\ pc = "mark_save"
    /\ UNCHANGED format
    /\ saves' = saves + 1
    /\ \/ /\ disk' = File(seen)
          /\ pc' = "poll_fetch"
          /\ failed' = failed
       \/ /\ disk' \in FailedWrite(disk)
          /\ pc' = "crashed"
          /\ failed' = TRUE
    /\ UNCHANGED <<config, upstream, locals, sink, attempts, loaded, unclean,
                   changes, restarts>>

\* send_to_discord(cid, ..., body, ...): the exception it raises, or "ok".
\* requests.post and raise_for_status fail when the webhook refuses.
SendOutcomes(cid, body) ==
    IF send_precheck(cid, body) = "post" THEN {"ok", "HTTPError"}
    ELSE {send_precheck(cid, body)}

\* l. 176: send_to_discord(cid, title, body, course_map.get(cid), url)
initial_send_args(item) == [cid |-> item.cid, body |-> Body(item.t)]

\* l. 205: send_to_discord(title, body, course_map.get(cid), url): the title
\* arrives as cid and the course name as body.
poll_send_args(cid, t) == [cid |-> t.title, body |-> course_map[cid]]

\* seen[tid] assigned before the send is tried
seen_marked_before_send(m, tid, posted, out) == SetItem(m, tid, posted)

\* l. 175-182 and l. 204-211: seen after the try block around the send, which
\* assigns seen[tid] only once send_to_discord has returned.
seen_after_send(m, tid, posted, out) ==
    IF out = "ok" THEN SetItem(m, tid, posted) ELSE m

\* Whether the exception is the failure of an external endpoint.
External(out) == out = "HTTPError"

\* l. 163-178: one turn of the send-existing loop, up to the send
InitSend ==
    /\ pc = "init_send"
    /\ UNCHANGED format
    /\ IF i > Len(initial_found)
       THEN /\ pc' = "poll_fetch"           \* l. 184: entering the poll loop
            /\ ci' = 1
            /\ attempts' = <<>>
            /\ UNCHANGED <<seen, i, sink, failed>>
       ELSE LET item == initial_found[i]
                args == initial_send_args(item)
            IN IF is_seen(seen, item.tid)
               THEN /\ i' = i + 1           \* l. 165: continue
                    /\ UNCHANGED <<pc, ci, seen, sink, attempts, failed>>
               ELSE /\ attempts' = Append(attempts, Attempt(item.cid, item.t))
                    /\ ci' = ci
                    /\ \E out \in SendOutcomes(args.cid, args.body) :
                          /\ seen' = seen_after_send(seen, item.tid, item.posted, out)
                          /\ IF out = "ok"
                             THEN /\ sink' = [sink EXCEPT ![item.t.id] = @ + 1]
                                  /\ pc' = "init_sleep"
                                  /\ UNCHANGED <<i, failed>>
                             ELSE /\ i' = i + 1     \* l. 181: except Exception
                                  /\ failed' = (failed \/ External(out))
                                  /\ UNCHANGED <<pc, sink>>
    /\ UNCHANGED <<config, upstream, disk, course_ids, course_map, initial_found,
                   topics, ti, saves, loaded, unclean, changes, restarts>>

\* l. 179: time.sleep(1), between marking and saving
InitSleep ==
    /\ pc = "init_sleep"
    /\ UNCHANGED format
    /\ pc' = "init_save"
    /\ UNCHANGED <<config, upstream, disk, locals, history>>

\* l. 180: save_seen(seen), inside the try of l. 175
InitSave ==
    /\ pc = "init_save"
    /\ UNCHANGED format
    /\ saves' = saves + 1
    /\ \E okw \in BOOLEAN :
          IF okw THEN disk' = File(seen) /\ failed' = failed
          ELSE disk' \in FailedWrite(disk) /\ failed' = TRUE
    /\ i' = i + 1
    /\ pc' = "init_send"
    /\ UNCHANGED <<config, upstream, seen, course_ids, course_map, initial_found,
                   ci, topics, ti, sink, attempts, loaded, unclean, changes, restarts>>

\* an exception of the cycle that nothing catches
poll_exception_uncaught == "crashed"

\* l. 212-214: "except Exception" around the whole cycle prints, and main()
\* goes on to time.sleep(POLL_INTERVAL).
poll_exception_handler == "sleep"

\* l. 187-190: one turn of "for cid in course_ids" in the poll loop; an
\* exception of the fetch leaves the for loop for the handler of l. 212.
PollFetch ==
    /\ pc = "poll_fetch"
    /\ UNCHANGED format
    /\ IF ci > Len(course_ids)
       THEN pc' = "sleep" /\ UNCHANGED <<topics, ti, failed>>
       ELSE \E okf \in BOOLEAN :
              IF okf
              THEN /\ topics' = sort_topics(fetch_announcements_for_course(course_ids[ci]))
                   /\ ti' = 1
                   /\ pc' = "poll_send"
                   /\ failed' = failed
              ELSE /\ pc' = poll_exception_handler
                   /\ failed' = TRUE
                   /\ UNCHANGED <<topics, ti>>
    /\ UNCHANGED <<config, upstream, disk, seen, course_ids, course_map, initial_found,
                   i, ci, sink, attempts, saves, loaded, unclean, changes, restarts>>

\* l. 191-211: one turn of "for t in topics": the send, and after a send
\* that succeeded the mark and the save of l. 207-208.
PollSend ==
    /\ pc = "poll_send"
    /\ UNCHANGED format
    /\ IF ti > Len(topics)
       THEN /\ ci' = ci + 1
            /\ pc' = "poll_fetch"
            /\ topics' = <<>>
            /\ ti' = 1
            /\ UNCHANGED <<seen, disk, sink, attempts, saves, failed>>
       ELSE LET t == topics[ti]
                cid == course_ids[ci]
                tid == ToString(t.id)
                args == poll_send_args(cid, t)
            IN /\ ti' = ti + 1
               /\ UNCHANGED <<ci, pc, topics>>
               /\ IF is_seen(seen, tid)
                  THEN UNCHANGED <<seen, disk, sink, attempts, saves, failed>>
                  ELSE /\ attempts' = Append(attempts, Attempt(cid, t))
                       /\ \E out \in SendOutcomes(args.cid, args.body) :
                             /\ seen' = seen_after_send(seen, tid,
                                                        PyOr(t.posted_at, EmptyStr), out)
                             /\ IF out = "ok"
                                THEN /\ sink' = [sink EXCEPT ![t.id] = @ + 1]
                                     /\ saves' = saves + 1
                                     /\ \E okw \in BOOLEAN :
                                           IF okw
                                           THEN disk' = File(seen') /\ failed' = failed
                                           ELSE disk' \in FailedWrite(disk) /\ failed' = TRUE
                                ELSE /\ failed' = (failed \/ External(out))
                                     /\ UNCHANGED <<disk, sink, saves>>
    /\ UNCHANGED <<config, upstream, course_ids, course_map, initial_found, i,
                   loaded, unclean, changes, restarts>>

\* l. 214: time.sleep(POLL_INTERVAL), then the next turn of "while True"
Sleep ==
    /\ pc = "sleep"
    /\ UNCHANGED format
    /\ pc' = "poll_fetch"
    /\ ci' = 1
    /\ attempts' = <<>>
    /\ UNCHANGED <<config, upstream, disk, seen, course_ids, course_map, initial_found,
                   i, topics, ti, sink, saves, loaded, failed, unclean, changes, restarts>>

\* ------------------------------------------------------------- environment
\* An announcement is published, edited or deleted upstream. The program
\* observes a course only through the fetch of that course, so an edit is
\* taken right before the fetch that can observe it.
UpstreamChange ==
    /\ pc \in {"init_fetch", "poll_fetch"}
    /\ UNCHANGED format
    /\ ci <= Len(course_ids)
    /\ changes + restarts < MaxEvents
    /\ changes' = changes + 1
    /\ \E a \in AnnIds, v \in {Absent} \cup {Present(w) : w \in TopicVersions} :
          /\ CourseOf(a) = course_ids[ci]
          /\ v # upstream[a]
          /\ upstream' = [upstream EXCEPT ![a] = v]
    /\ UNCHANGED <<config, disk, pc, locals, sink, attempts, saves, loaded, failed,
                   unclean, restarts>>

\* The process is terminated and started again. A termination during a write
\* of the file may leave it truncated.
Restart ==
    /\ changes + restarts < MaxEvents
    /\ UNCHANGED format
    /\ restarts' = restarts + 1
    /\ disk' \in (IF pc \in {"init_save", "mark_save"} THEN FailedWrite(disk) ELSE {disk})
    /\ pc' = "load"
    /\ seen' = EmptyMap
    /\ course_ids' = <<>>
    /\ course_map' = EmptyMap
    /\ initial_found' = <<>>
    /\ i' = 1
    /\ ci' = 1
    /\ topics' = <<>>
    /\ ti' = 1
    /\ attempts' = <<>>
    /\ saves' = 0
    /\ loaded' = EmptyMap
    /\ unclean' = (unclean \/ ~ (DOMAIN seen \subseteq DOMAIN disk'.data))
    /\ UNCHANGED <<config, upstream, sink, failed, changes>>

Main ==
    \/ LoadSeen \/ ResolveCourses \/ InitFetch \/ MarkExisting \/ MarkSave
    \/ InitSend \/ InitSleep \/ InitSave \/ PollFetch \/ PollSend \/ Sleep

Next == Main \/ UpstreamChange \/ Restart

Spec == Init /\ [][Next]_vars

\* The process left alone: main() is sequential and each of its steps
\* (a request with a timeout, a file write, a sleep) returns.
LiveSpec == Init /\ [][Main]_vars /\ WF_vars(Main)

\* The same program started with a configuration of ConfigInit.
ConfigSpec == ConfigInit /\ [][Next]_vars

\* ------------------------------------------------------------- one message
\* The formatting of one announcement, as both loops of main() do it and as
\* send_to_discord renders it, on its own: main() has not started.
FormatInit ==
    /\ INITIAL_RUN_SEND = TRUE
    /\ COURSE_IDS = ActiveCourses
    /\ COURSE_ROLES = <<"CCS0005", "GED">>
    /\ upstream = [a \in AnnIds |-> Absent]
    /\ disk = NoFile
    /\ ProcessStart
    /\ fpc = "format"
    /\ \E n \in TextLens : raw_text = PlainText(n)
    /\ \E n \in 0..MaxLinks : named_links = NamedLinks(n)
    /\ body_text = <<>>
    /\ description = <<>>

\* l. 166-172 and l. 195-201: the body of the message
FormatMessage ==
    /\ fpc = "format"
    /\ body_text' = compose_body(raw_text, named_links)
    /\ fpc' = "send"
    /\ UNCHANGED <<config, upstream, disk, pc, locals, history,
                   raw_text, named_links, description>>

\* l. 87-93: the embed send_to_discord builds from the body it is given
BuildEmbed ==
    /\ fpc = "send"
    /\ description' = embed_description(body_text)
    /\ fpc' = "posted"
    /\ UNCHANGED <<config, upstream, disk, pc, locals, history,
                   raw_text, named_links, body_text>>

FormatNext == FormatMessage \/ BuildEmbed

FormatSpec == FormatInit /\ [][FormatNext]_vars

\* ------------------------------------------------------------- claims
Effective(t) == PyOr(PyOr(t.posted_at, t.created_at), EmptyStr)
Key(a) == ToString(a)
InLoop == pc \in {"poll_fetch", "poll_send", "sleep"}

\* C1: within one process run, once an identifier is a key of seen it stays
\* one, and no step delivers an announcement whose identifier is a key of
\* seen, whatever content the source now returns for it.
C1_SeenNeverRedelivered ==
    [][ /\ \A a \in AnnIds : Key(a) \in DOMAIN seen => sink'[a] = sink[a]
        /\ restarts' = restarts => DOMAIN seen \subseteq DOMAIN seen' ]_vars

\* C1 witness: the poll loop has just passed over an announcement that was
\* delivered once and whose timestamps were edited upstream afterwards.
C1_Witness ==
    /\ pc = "poll_send" /\ ti > 1 /\ changes = 1
    /\ LET t == topics[ti - 1]
       IN /\ Key(t.id) \in DOMAIN seen
          /\ sink[t.id] = 1
          /\ Effective(t) # seen[Key(t.id)]

\* C2: in the poll loop, with the webhook and the file healthy, the turn for
\* a returned announcement whose identifier is not in seen sends it to the
\* sink, marks it seen and persists the map.
C2_PollDelivers ==
    [][ (/\ pc = "poll_send" /\ restarts' = restarts /\ ti <= Len(topics)
         /\ Key(topics[ti].id) \notin DOMAIN seen
         /\ failed' = failed)
          => /\ sink'[topics[ti].id] = sink[topics[ti].id] + 1
             /\ Key(topics[ti].id) \in DOMAIN seen'
             /\ disk' = File(seen') ]_vars

\* C3: a send that fails (role lookup or webhook) leaves seen and the file
\* as they were, and the poll loop calls send_to_discord for every
\* announcement it is returned whose identifier is not in seen.
C3_FailedSendNotMarked ==
    [][ /\ (Len(attempts') = Len(attempts) + 1 /\ sink' = sink)
             => (seen' = seen /\ disk' = disk)
        /\ (/\ pc = "poll_send" /\ restarts' = restarts /\ ti <= Len(topics)
            /\ Key(topics[ti].id) \notin DOMAIN seen)
             => /\ Len(attempts') = Len(attempts) + 1
                /\ attempts'[Len(attempts')].tid = Key(topics[ti].id) ]_vars

\* C3 witness: the poll loop has called send_to_discord again for an
\* announcement whose bootstrap send the webhook refused; it is still unseen.
C3_Witness ==
    /\ INITIAL_RUN_SEND /\ pc = "poll_send" /\ attempts # <<>>
    /\ changes = 0 /\ restarts = 0 /\ failed
    /\ LET a == attempts[Len(attempts)]
       IN /\ a.tid \notin DOMAIN seen
          /\ sink[a.t.id] = 0
          /\ \E j \in 1..Len(initial_found) : initial_found[j].tid = a.tid

\* C4: a poll cycle whose fetch of one course fails still visits the
\* courses after it: the cycle reaches its sleep with no course left.
C4_FetchFailureContinues ==
    pc = "sleep" => ci >= Len(course_ids)

\* C5: once the poll loop is entered it never ends: whatever fails inside a
\* cycle, the loop comes to its sleep and starts another cycle, again and
\* again.
C5_LoopNeverEnds ==
    /\ [][InLoop => InLoop']_vars
    /\ InLoop ~> (pc = "sleep")
    /\ (pc = "sleep") ~> (pc = "poll_fetch" /\ ci = 1)

\* C5 witness: the loop is at its sleep after a cycle in which a send failed
\* and the fetch of a later course failed.
C5_Witness ==
    pc = "sleep" /\ ci <= Len(course_ids) /\ attempts # <<>> /\ failed

\* A send-existing run that started with no seen state and an index-aligned
\* role list, and in which nothing failed, nothing changed upstream and the
\* process was not restarted.
Quiet ==
    /\ INITIAL_RUN_SEND
    /\ COURSE_IDS # <<>> /\ Len(COURSE_ROLES) >= Len(COURSE_IDS)
    /\ loaded = EmptyMap /\ pc # "load"
    /\ ~failed /\ changes = 0 /\ restarts = 0

C7_AtMostOnceEver ==
    \A a \in AnnIds : sink[a] <= 1

\* C7 amended: each announcement is delivered at most once in total provided
\* every termination finds each key of the in-memory map in the file.
C7_AtMostOnceCleanStops ==
    ~unclean => \A a \in AnnIds : sink[a] <= 1

\* C7 witness: after a termination that found the file complete, the
\* restarted process has passed over an announcement delivered before the
\* restart without sending anything.
C7_Witness ==
    /\ restarts = 1 /\ ~unclean /\ saves = 0 /\ attempts = <<>>
    /\ pc = "init_send" /\ i > 1 /\ i <= Len(initial_found) + 1
    /\ sink[initial_found[i - 1].t.id] = 1

MarkOnlyPass == ~INITIAL_RUN_SEND /\ pc \in {"load", "courses", "init_fetch", "mark", "mark_save"}

\* C8: in mark-only mode the bootstrap pass sends nothing; once the items are
\* recorded, seen maps every collected identifier to its effective timestamp,
\* present before or not; and the file is written once, after the recording,
\* with the whole map.
C8_MarkOnlyBootstrap ==
    /\ [](MarkOnlyPass => (attempts = <<>> /\ saves = 0))
    /\ []((~INITIAL_RUN_SEND /\ pc = "mark_save") =>
             \A j \in 1..Len(initial_found) :
                /\ initial_found[j].tid \in DOMAIN seen
                /\ seen[initial_found[j].tid] = Effective(initial_found[j].t))
    /\ [][ /\ MarkOnlyPass => sink' = sink
           /\ (MarkOnlyPass /\ restarts' = restarts /\ disk' # disk) => pc = "mark_save"
           /\ (MarkOnlyPass /\ pc = "mark_save" /\ restarts' = restarts) =>
                 /\ saves' = 1
                 /\ pc' = "poll_fetch" => disk' = File(seen) ]_vars

\* C8 witness: a mark-only bootstrap has ended; it overwrote the timestamp of
\* an identifier that was already in the file, wrote the file once and sent
\* nothing.
C8_Witness ==
    /\ ~INITIAL_RUN_SEND /\ pc = "poll_fetch" /\ ci = 1 /\ restarts = 0
    /\ saves = 1 /\ disk = File(seen)
    /\ \A a \in AnnIds : sink[a] = 0
    /\ \E j \in 1..Len(initial_found) :
          /\ initial_found[j].tid \in DOMAIN loaded
          /\ loaded[initial_found[j].tid] # seen[initial_found[j].tid]

\* C9: the mark-only bootstrap is idempotent: what it leaves in seen, and so
\* in the file, is what a second run over the same batch leaves.
C9_MarkOnlyIdempotent ==
    (~INITIAL_RUN_SEND /\ pc = "mark_save") =>
        LET once == mark_existing(loaded, initial_found)
            twice == mark_existing(once, initial_found)
        IN seen = once /\ twice = once /\ File(twice) = File(once)

\* C9 witness: the process was restarted after a mark-only bootstrap and has
\* marked the same non-empty batch again; the map is the one it loaded.
C9_Witness ==
    /\ ~INITIAL_RUN_SEND /\ pc = "mark_save" /\ restarts = 1 /\ changes = 0
    /\ initial_found # <<>>
    /\ seen = loaded

\* Python's < on str, stated on positions: a is a proper prefix of b, or the
\* first position where they differ holds the smaller character in a.
Lex(a, b) ==
    \/ Len(a) < Len(b) /\ \A p \in 1..Len(a) : a[p] = b[p]
    \/ \E p \in 1..Len(a) :
          /\ p <= Len(b) /\ a[p] < b[p]
          /\ \A q \in 1..(p - 1) : a[q] = b[q]

\* Collection order: configuration order of the courses, then fetch order.
FetchPos(a) ==
    LET ts == fetch_announcements_for_course(CourseOf(a))
    IN CHOOSE p \in 1..Len(ts) : ts[p].id = a
CollectedBefore(x, y) ==
    \/ IndexOf(course_ids, x.cid) < IndexOf(course_ids, y.cid)
    \/ x.cid = y.cid /\ FetchPos(x.t.id) < FetchPos(y.t.id)

\* C10: the send-existing bootstrap calls send_to_discord in ascending order
\* of effective timestamp over all courses together, compared as strings:
\* "" first, and equal timestamps in collection order.
C10_BootstrapSendOrder ==
    (INITIAL_RUN_SEND /\ pc \in {"init_send", "init_sleep", "init_save"}) =>
        \A j, k \in 1..Len(attempts) : j < k =>
            /\ ~Lex(Effective(attempts[k].t), Effective(attempts[j].t))
            /\ Effective(attempts[k].t) = EmptyStr => Effective(attempts[j].t) = EmptyStr
            /\ Effective(attempts[j].t) = Effective(attempts[k].t)
                  => CollectedBefore(attempts[j], attempts[k])

\* C10 witness: three sends of one bootstrap, the first with an empty
\* timestamp, then "10" of the second course before "2" of the first course.
C10_Witness ==
    /\ INITIAL_RUN_SEND /\ pc = "init_send" /\ Len(attempts) = 3
    /\ Effective(attempts[1].t) = EmptyStr
    /\ Effective(attempts[2].t) = T10 /\ attempts[2].cid = course_ids[2]
    /\ Effective(attempts[3].t) = T2 /\ attempts[3].cid = course_ids[1]
    /\ attempts[1].cid = course_ids[1]

\* C11: a body of more than 1900 characters is delivered as its first 1800
\* characters followed by "..." (1803 characters), and a body of at most
\* 1800 characters is delivered as it is.
C11_Truncation ==
    fpc = "posted" =>
        /\ Len(body_text) > 1900 =>
              /\ Len(description) = 1803
              /\ \A j \in 1..1800 : description[j] = body_text[j]
              /\ \A j \in 1801..1803 : description[j] = 46
        /\ Len(body_text) <= 1800 => description = body_text

\* C11 witness: a body of 2000 characters was delivered as 1803 characters.
C11_Witness ==
    fpc = "posted" /\ Len(body_text) = 2000 /\ Len(description) = 1803

\* The character at position j of the plain text followed by the complete
\* link section.
TextThenLinks(j) ==
    IF j <= Len(raw_text) THEN raw_text[j]
    ELSE link_section(named_links)[j - Len(raw_text)]
TextThenLinksLen == Len(raw_text) + Len(link_section(named_links))

\* C16 as stated: when links are extracted, the description delivered is the
\* plain text, cut to 1800 characters and the marker if it is longer than
\* 1900, followed by the complete link section.
C16_TruncationBeforeLinks ==
    (fpc = "posted" /\ named_links # <<>>) =>
        LET cut == IF Len(raw_text) > 1900
                   THEN SubSeq(raw_text, 1, 1800) \o <<46, 46, 46>>
                   ELSE raw_text
        IN description = cut \o link_section(named_links)

\* C16 amended: the truncation is applied after the link section is
\* appended: the description is the plain text followed by the complete
\* link section when the two together have at most 1900 characters, and
\* else the first 1800 characters of the two together followed by "...".
C16_TruncationAfterLinks ==
    (fpc = "posted" /\ named_links # <<>>) =>
        IF TextThenLinksLen <= 1900
        THEN /\ Len(description) = TextThenLinksLen
             /\ \A j \in 1..TextThenLinksLen : description[j] = TextThenLinks(j)
        ELSE /\ Len(description) = 1803
             /\ \A j \in 1..1800 : description[j] = TextThenLinks(j)
             /\ \A j \in 1801..1803 : description[j] = 46

\* C16 witness: a plain text that is under the threshold on its own was cut
\* because of its link section, of which nothing is delivered.
C16_Witness ==
    /\ fpc = "posted" /\ named_links # <<>>
    /\ Len(raw_text) > 1800 /\ Len(raw_text) <= 1900
    /\ Len(description) = 1803
    /\ \A j \in 1..1800 : description[j] = raw_text[j]

\* C12: no failure of an external endpoint or of a write of the file ends
\* the process, in any phase.
C12_NothingFatal ==
    pc # "crashed"

\* The file holds the map m.
DiskHolds(m) == disk.kind # "corrupt" /\ disk.data = m

\* C13: once the poll loop runs with a file that does not hold the in-memory
\* map (a write has failed), a later cycle writes the map, so that the file
\* comes to hold it.
C13_FailedWriteRetried ==
    [](( InLoop /\ ~DiskHolds(seen)) => <>DiskHolds(seen))

\* C14: in the send-existing bootstrap, unless a write has failed, the file
\* holds the in-memory map when the pacing delay starts and when the next
\* item is taken up.
C14_PersistedBeforeDelay ==
    (INITIAL_RUN_SEND /\ pc \in {"init_sleep", "init_send"} /\ ~failed)
        => DiskHolds(seen)

\* The posted timestamp of a topic as a string.
Posted(t) == PyOr(t.posted_at, EmptyStr)

\* C15: within one poll cycle the send attempts follow the order of the
\* course list, all attempts of a course before any of the next, and within
\* a course they are in non-decreasing order of posted timestamp as a
\* string, "" first.
C15_CycleSendOrder ==
    InLoop =>
        \A j, k \in 1..Len(attempts) : j < k =>
            /\ IndexOf(course_ids, attempts[j].cid) <= IndexOf(course_ids, attempts[k].cid)
            /\ attempts[j].cid = attempts[k].cid =>
                  /\ ~Lex(Posted(attempts[k].t), Posted(attempts[j].t))
                  /\ Posted(attempts[k].t) = EmptyStr => Posted(attempts[j].t) = EmptyStr

\* C15 witness: a cycle has made three attempts: one of the first course with
\* posted timestamp "10", then two of the second course, with "" and "10",
\* which the source returned in the opposite order.
C15_Witness ==
    /\ pc = "sleep" /\ Len(attempts) = 3
    /\ attempts[1].cid = course_ids[1] /\ Posted(attempts[1].t) = T10
    /\ attempts[2].cid = course_ids[2] /\ Posted(attempts[2].t) = EmptyStr
    /\ attempts[3].cid = course_ids[2] /\ Posted(attempts[3].t) = T10
    /\ attempts[2].t.id < attempts[3].t.id

\* C17: with a role list shorter than the course list, a bootstrap send for
\* a course without a role is caught and delivers, marks and writes nothing,
\* and the loop goes on; a send for a course with a role is delivered and
\* marked in the same pass unless an external endpoint has failed.
C17_ShortRoleList ==
    [][ (/\ COURSE_IDS # <<>> /\ Len(COURSE_ROLES) < Len(COURSE_IDS)
         /\ pc = "init_send" /\ restarts' = restarts
         /\ Len(attempts') = Len(attempts) + 1)
          => LET a == attempts'[Len(attempts')]
             IN IF IndexOf(COURSE_IDS, a.cid) > Len(COURSE_ROLES)
                THEN /\ sink' = sink /\ seen' = seen /\ disk' = disk
                     /\ pc' = "init_send" /\ i' = i + 1
                ELSE ~failed' => /\ sink'[a.t.id] = sink[a.t.id] + 1
                                 /\ a.tid \in DOMAIN seen' ]_vars

\* C17 witness: a bootstrap pass with one role for two courses has ended
\* with no external failure: an announcement of the first course is
\* delivered and seen, one of the second course was tried and is not seen.
C17_Witness ==
    /\ COURSE_IDS # <<>> /\ Len(COURSE_ROLES) < Len(COURSE_IDS)
    /\ pc = "init_send" /\ i > Len(initial_found) /\ ~failed /\ restarts = 0
    /\ \E a \in AnnIds : /\ CourseOf(a) = COURSE_IDS[1]
                         /\ sink[a] = 1 /\ Key(a) \in DOMAIN seen
    /\ \E j \in 1..Len(attempts) :
          /\ attempts[j].cid = COURSE_IDS[2]
          /\ attempts[j].tid \notin DOMAIN seen
          /\ sink[attempts[j].t.id] = 0

Tids(found) == {found[j].tid : j \in 1..Len(found)}

\* C18: in the bootstrap pass the turn of a course always leads to the turn
\* of the next course or to the processing of what was collected; it keeps
\* what the earlier courses gave, and adds every announcement of its course
\* unless a request has failed.
C18_BootstrapFetchContinues ==
    [][ (pc = "init_fetch" /\ restarts' = restarts /\ changes' = changes)
          => /\ pc' \in {"init_fetch", "init_send", "mark"}
             /\ ci < Len(course_ids) => (pc' = "init_fetch" /\ ci' = ci + 1)
             /\ Tids(initial_found) \subseteq Tids(initial_found')
             /\ ~failed' =>
                   \A a \in AnnIds :
                      (upstream[a].present /\ CourseOf(a) = course_ids[ci])
                         => Key(a) \in Tids(initial_found') ]_vars

\* C18 witness: the bootstrap fetch of the first course failed, and the
\* announcement of the second course was collected and delivered in that
\* pass.
C18_Witness ==
    /\ INITIAL_RUN_SEND /\ pc = "init_send" /\ i > Len(initial_found)
    /\ failed /\ restarts = 0 /\ changes = 0
    /\ \E a \in AnnIds : /\ upstream[a].present /\ CourseOf(a) = course_ids[1]
                         /\ Key(a) \notin Tids(initial_found)
                         /\ Key(a) \notin DOMAIN loaded
    /\ \E b \in AnnIds : /\ CourseOf(b) = course_ids[2]
                         /\ Key(b) \in Tids(initial_found) /\ sink[b] = 1

Discovered == COURSE_IDS = <<>> /\ INITIAL_RUN_SEND

\* C19: with an empty static course list and send-existing mode, every send
\* attempt fails without an external failure, nothing is ever delivered, the
\* in-memory map stays the map that was loaded and the file is never written.
C19_DiscoveryNeverDelivers ==
    /\ [](Discovered => /\ \A a \in AnnIds : sink[a] = 0
                        /\ saves = 0
                        /\ pc # "load" => seen = loaded)
    /\ [][ Discovered => /\ disk' = disk
                         /\ Len(attempts') = Len(attempts) + 1
                               => (sink' = sink /\ failed' = failed) ]_vars

\* C19 witness: with discovered courses a poll cycle has ended after the
\* bootstrap; sends were tried, an announcement the source holds is still
\* unseen, and the map is the non-empty map that was loaded.
C19_Witness ==
    /\ Discovered /\ pc = "sleep" /\ ci > Len(course_ids) /\ ~failed
    /\ attempts # <<>>
    /\ loaded # EmptyMap /\ seen = loaded /\ disk = File(loaded)
    /\ \E a \in AnnIds : upstream[a].present /\ Key(a) \notin DOMAIN seen

\* C20: within a process run no step removes a key of seen; no step but the
\* mark-only recording changes the timestamp of a key that is present; and
\* no step changes the timestamp of a key that is in no fetched batch.
C20_SeenGrowsEntriesStable ==
    [][ restarts' = restarts =>
          /\ DOMAIN seen \subseteq DOMAIN seen'
          /\ pc # "mark" => \A k \in DOMAIN seen : seen'[k] = seen[k]
          /\ \A k \in DOMAIN seen :
                k \notin Tids(initial_found) => seen'[k] = seen[k] ]_vars

\* C20 witness: the mark-only recording has run over a map loaded with two
\* keys: the one that is in no batch has kept its timestamp, the other has
\* a new one.
C20_Witness ==
    /\ ~INITIAL_RUN_SEND /\ pc = "mark_save" /\ restarts = 0
    /\ \E k \in DOMAIN loaded :
          /\ k \notin Tids(initial_found)
          /\ k \in DOMAIN seen /\ seen[k] = loaded[k]
    /\ \E k \in DOMAIN loaded :
          /\ k \in Tids(initial_found) /\ seen[k] # loaded[k]

====
